---- MODULE Spec2Model ----
(***************************************************************************)
(* Model of scripts/setup_project.py: the table-of-contents generator      *)
(* (generate_toc_content), the file materializer (create_file), the        *)
(* command helpers (run_command, check_prereq) and the orchestration       *)
(* sequence (main).                                                        *)
(*                                                                         *)
(* File names, document lines and file contents are TLA+ strings.  A       *)
(* document (the list `toc` that generate_toc_content joins with "\n") is  *)
(* kept as its sequence of lines.                                          *)
(***************************************************************************)
EXTENDS Integers, Sequences, FiniteSets, TLC

\* ------------------------------------------------------------------ bounds
\* number of names of OtherPool that may occur in rules/ besides the chapters
NumOther == 3
\* number of names of DirPool that may be subdirectories of rules/
NumDirNames == 2
\* number of names of MainPool that may occur in rules/ when main runs
NumMain == 1
\* number of consecutive runs of main
MaxRuns == 2
\* number of paths of TargetPool that create_file is called on by itself
NumTargets == 3

\* --------------------------------------------------------------- constants
CHAPTER_FILES ==
  << "00-Introduction.md",
     "1-Using-LLMs-Effectively-Safely-The-Core-Interaction-Loop.md",
     "2-Security-Non-Negotiable-Foundations.md",
     "3-Code-Quality-Maintainability.md",
     "4-Testing-Validation.md",
     "5-Performance-Efficiency.md",
     "6-Architecture-System-Design.md",
     "7-Frontend-UIUX-Accessibility.md",
     "8-DevOps-Infrastructure.md",
     "9-Specific-Technologies-Advanced-Topics.md" >>

\* names outside the fixed list that a snapshot of rules/ may contain
OtherPool ==
  << "README.md", "notes.txt", "appendix.md", "10-Extra.md", "Zeta.md" >>

\* the names that rules/ may hold when main runs
MainPool ==
  << "00-Introduction.md", "README.md", "2-Security-Non-Negotiable-Foundations.md" >>

\* the names that may be those of subdirectories of rules/: a chapter name
\* and names outside the fixed list
DirPool ==
  << "4-Testing-Validation.md", "README.md", "appendix.md", "notes.txt" >>

OtherNames == { OtherPool[i] : i \in 1..NumOther }

ChapterNames == { CHAPTER_FILES[i] : i \in 1..Len(CHAPTER_FILES) }

Names == ChapterNames \cup OtherNames

DirNames == { DirPool[i] : i \in 1..NumDirNames } \cap Names

\* ------------------------------------------------------- string primitives
\* the characters that occur in the names, in increasing code-point order
Alphabet == " -.0123456789ABCDEFGHIJKLMNOPQRSTUVWXYZ_abcdefghijklmnopqrstuvwxyz"

CharAt(s, i) == SubSeq(s, i, i)

\* the rank of every character of Alphabet, computed once
Ranks ==
  [ c \in { CharAt(Alphabet, i) : i \in 1..Len(Alphabet) } |->
      CHOOSE i \in 1..Len(Alphabet) : CharAt(Alphabet, i) = c ]

\* Python's ord(), up to the order of the characters
Ord(c) == Ranks[c]

StartsWith(s, p) == Len(s) >= Len(p) /\ SubSeq(s, 1, Len(p)) = p

EndsWith(s, p) == Len(s) >= Len(p) /\ SubSeq(s, Len(s) - Len(p) + 1, Len(s)) = p

\* Python's str < str: code-point lexicographic order
RECURSIVE StrLess(_, _)
StrLess(a, b) ==
  IF Len(a) = 0 THEN Len(b) > 0
  ELSE IF Len(b) = 0 THEN FALSE
  ELSE IF CharAt(a, 1) = CharAt(b, 1)
       THEN StrLess(SubSeq(a, 2, Len(a)), SubSeq(b, 2, Len(b)))
       ELSE Ord(CharAt(a, 1)) < Ord(CharAt(b, 1))

\* Python's sorted() over a collection of distinct strings
RECURSIVE sorted(_)
sorted(S) ==
  IF S = {} THEN << >>
  ELSE LET m == CHOOSE x \in S : \A y \in S \ {x} : StrLess(x, y)
       IN  << m >> \o sorted(S \ {m})

\* Python's str.replace(old, new): every non-overlapping occurrence, left to right
RECURSIVE Replace(_, _, _)
Replace(s, old, new) ==
  IF Len(s) < Len(old) THEN s
  ELSE IF SubSeq(s, 1, Len(old)) = old
       THEN new \o Replace(SubSeq(s, Len(old) + 1, Len(s)), old, new)
       ELSE CharAt(s, 1) \o Replace(SubSeq(s, 2, Len(s)), old, new)

\* Python's str.strip(): leading and trailing blanks removed
RECURSIVE Strip(_)
Strip(s) ==
  IF Len(s) = 0 THEN s
  ELSE IF CharAt(s, 1) = " " THEN Strip(SubSeq(s, 2, Len(s)))
  ELSE IF CharAt(s, Len(s)) = " " THEN Strip(SubSeq(s, 1, Len(s) - 1))
  ELSE s

\* ------------------------------------------------------------ rules/ directory
\* a snapshot of rules/: every name is absent, a regular file or a subdirectory
EntryKinds == { "absent", "file", "dir" }

\* mutant of is_file: Path.exists(), true of a subdirectory too
is_file_exists(dir, name) == name \in DOMAIN dir /\ dir[name] # "absent"

\* Path.is_file() for rules_dir / name
is_file(dir, name) == name \in DOMAIN dir /\ dir[name] = "file"

\* rules_dir.glob('*.md'): the names of all entries, of any kind, that end in .md
glob_md(dir) == { n \in DOMAIN dir : dir[n] # "absent" /\ EndsWith(n, ".md") }

\* ------------------------------------------------------- generate_toc_content
\* title of a chapter entry (the chained replace of line 502)
ChapterTitle(filename) ==
  LET s0  == Replace(filename, ".md", "")
      s1  == Replace(s0, "-", " ")
      s2  == Replace(s1, "00", "")
      s3  == Replace(s2, "0", "")
      s4  == Replace(s3, "1", "1.")
      s5  == Replace(s4, "2", "2.")
      s6  == Replace(s5, "3", "3.")
      s7  == Replace(s6, "4", "4.")
      s8  == Replace(s7, "5", "5.")
      s9  == Replace(s8, "6", "6.")
      s10 == Replace(s9, "7", "7.")
      s11 == Replace(s10, "8", "8.")
      s12 == Replace(s11, "9", "9.")
  IN  Strip(s12)

\* title of an "Other Files" entry (line 516)
OtherTitle(filename) == Replace(Replace(filename, ".md", ""), "-", " ")

\* the titles of all names, computed once
ChapterTitles == [ f \in ChapterNames |-> ChapterTitle(f) ]

OtherTitles == [ f \in Names |-> OtherTitle(f) ]

\* f"*   [{title}]({relative_link})" with relative_link = f"../rules/{filename}"
EntryLine(title, filename) == "*   [" \o title \o "](" \o "../rules/" \o filename \o ")"

\* lines 489-494 (the backquotes of line 491 are written as apostrophes)
TocHeader ==
  << "# LLM Coding Guide - Master Rules (v1.0.7+)",
     "",
     "This document serves as the entry point and Table of Contents for the Master List of Rules (MLR) for LLM-Assisted Coding.",
     "The rules are broken down into chapters, located in the '../rules/' directory.",
     "",
     "## Chapters",
     "" >>

MissingWarning(filename) == "Warning: Expected chapter file not found: rules/" \o filename

\* mutant of ChapterLoop: the else branch of line 507 is lost, no warning is printed
RECURSIVE ChapterLoopSilent(_, _, _)
ChapterLoopSilent(dir, i, acc) ==
  IF i > Len(CHAPTER_FILES) THEN acc
  ELSE LET filename == CHAPTER_FILES[i]
       IN  IF dir[filename] = "file"
           THEN ChapterLoopSilent(dir, i + 1,
                  [acc EXCEPT !.toc = Append(@, EntryLine(ChapterTitles[filename], filename)),
                              !.found_files = Append(@, filename)])
           ELSE ChapterLoopSilent(dir, i + 1, acc)

\* the loop of lines 498-508 from index i on; acc holds toc, found_files and
\* the warnings printed to stderr
RECURSIVE ChapterLoop(_, _, _)
ChapterLoop(dir, i, acc) ==
  IF i > Len(CHAPTER_FILES) THEN acc
  ELSE LET filename == CHAPTER_FILES[i]
       IN  IF is_file(dir, filename)
           THEN ChapterLoop(dir, i + 1,
                  [acc EXCEPT !.toc = Append(@, EntryLine(ChapterTitles[filename], filename)),
                              !.found_files = Append(@, filename)])
           ELSE ChapterLoop(dir, i + 1,
                  [acc EXCEPT !.stderr = Append(@, MissingWarning(filename))])

Range(s) == { s[i] : i \in 1..Len(s) }

\* line 511
OtherFiles(dir, found_files) == sorted({ n \in glob_md(dir) : n \notin Range(found_files) })

\* mutant of OtherSection: the test of line 512 is lost, the heading is always written
OtherSectionAlways(other_files) ==
  << "", "### Other Files" >> \o
  [ i \in 1..Len(other_files) |-> EntryLine(OtherTitles[other_files[i]], other_files[i]) ]

\* lines 512-518
OtherSection(other_files) ==
  IF other_files # << >>
  THEN << "", "### Other Files" >> \o
       [ i \in 1..Len(other_files) |-> EntryLine(OtherTitles[other_files[i]], other_files[i]) ]
  ELSE << >>

\* generate_toc_content(rules_dir): the lines of the returned document and the
\* warnings it prints
generate_toc_content(dir) ==
  LET loop == ChapterLoop(dir, 1, [toc |-> TocHeader, found_files |-> << >>, stderr |-> << >>])
      other_files == OtherFiles(dir, loop.found_files)
  IN  [ toc    |-> loop.toc \o OtherSection(other_files) \o << "" >>,
        stderr |-> loop.stderr ]

\* ------------------------------------------------------------------ file system
\* the directories and files of the working directory that main reads or writes
DirPaths == { ".git", "rules", "docs", "scripts", ".vscode", ".github",
              ".github/workflows", ".venv" }

TocPath == "docs/LLM_CODING_GUIDE.md"

ScriptPath == "scripts/setup_project.py"

\* opaque payloads: each template is the one line that names its literal
GITIGNORE_CONTENT == << "<GITIGNORE_CONTENT>" >>

GITATTRIBUTES_CONTENT == << "<GITATTRIBUTES_CONTENT>" >>

VSCODE_SETTINGS_CONTENT == << "<VSCODE_SETTINGS_CONTENT>" >>

MARKDOWNLINT_CONFIG_CONTENT == << "<MARKDOWNLINT_CONFIG_CONTENT>" >>

README_CONTENT_TEMPLATE == << "<README_CONTENT_TEMPLATE>" >>

SETUP_GUIDE_CONTENT == << "<SETUP_GUIDE_CONTENT>" >>

GITHUB_WORKFLOW_CONTENT == << "<GITHUB_WORKFLOW_CONTENT>" >>

\* the text of the running script, Path(__file__).read_text()
SelfScript == << "<setup_project.py>" >>

\* content of an output file left by something other than this script
OldContent == << "<previous content>" >>

\* the create_file calls of lines 568-574, in order
Templates ==
  << [path |-> ".gitignore",                         content |-> GITIGNORE_CONTENT],
     [path |-> ".gitattributes",                     content |-> GITATTRIBUTES_CONTENT],
     [path |-> ".vscode/settings.json",              content |-> VSCODE_SETTINGS_CONTENT],
     [path |-> ".markdownlint.jsonc",                content |-> MARKDOWNLINT_CONFIG_CONTENT],
     [path |-> "README.md",                          content |-> README_CONTENT_TEMPLATE],
     [path |-> "docs/SETUP_GUIDE.md",                content |-> SETUP_GUIDE_CONTENT],
     [path |-> ".github/workflows/markdown-lint.yml", content |-> GITHUB_WORKFLOW_CONTENT] >>

TemplatePaths == { Templates[i].path : i \in 1..Len(Templates) }

OutputPaths == TemplatePaths \cup { TocPath, ScriptPath }

Paths == DirPaths \cup OutputPaths

Absent == [kind |-> "absent", content |-> << >>]

DirNode == [kind |-> "dir", content |-> << >>]

FileNode(content) == [kind |-> "file", content |-> content]

\* Path.parent: the path without its last component; "." is the working directory
RECURSIVE Parent(_)
Parent(p) ==
  IF Len(p) = 0 THEN "."
  ELSE IF CharAt(p, Len(p)) = "/" THEN SubSeq(p, 1, Len(p) - 1)
  ELSE Parent(SubSeq(p, 1, Len(p) - 1))

KindOf(f, p) == IF p = "." THEN "dir" ELSE f[p].kind

\* Path.is_dir()
is_dir(f, p) == KindOf(f, p) = "dir"

\* Path.mkdir(parents, exist_ok): ok is FALSE when it raises an OSError
RECURSIVE mkdir(_, _, _, _)
mkdir(f, p, parents, exist_ok) ==
  IF KindOf(f, p) = "dir" THEN [ok |-> exist_ok, fs |-> f]
  ELSE IF KindOf(f, p) = "file" THEN [ok |-> FALSE, fs |-> f]
  ELSE IF KindOf(f, Parent(p)) = "dir" THEN [ok |-> TRUE, fs |-> [f EXCEPT ![p] = DirNode]]
  ELSE IF KindOf(f, Parent(p)) = "file" THEN [ok |-> FALSE, fs |-> f]
  ELSE IF parents
       THEN LET r == mkdir(f, Parent(p), TRUE, TRUE)
            IN  IF r.ok THEN [ok |-> TRUE, fs |-> [r.fs EXCEPT ![p] = DirNode]] ELSE r
       ELSE [ok |-> FALSE, fs |-> f]

\* mutant of open_w: the file is opened with mode 'a' and the content appended
open_a(f, path, content, refused) ==
  IF f[path].kind = "dir" \/ refused
  THEN [ok |-> FALSE, fs |-> f]
  ELSE [ok |-> TRUE, fs |-> [f EXCEPT ![path] = FileNode(f[path].content \o content)]]

\* open(path, 'w') followed by f.write(content); refused is the file system
\* denying the open (permission denied, read-only file system)
open_w(f, path, content, refused) ==
  IF KindOf(f, path) = "dir" \/ refused
  THEN [ok |-> FALSE, fs |-> f]
  ELSE [ok |-> TRUE, fs |-> [f EXCEPT ![path] = FileNode(content)]]

\* mutant of create_file: the mkdir of line 477 is lost, and open fails when
\* the parent directory is missing
create_file_no_mkdir(f, path, content, refused) ==
  LET w == open_w(f, path, content, refused \/ KindOf(f, Parent(path)) # "dir")
  IN  IF ~w.ok THEN [raised |-> TRUE, fs |-> w.fs,
                     stderr |-> << "Error creating/writing file " \o path >>]
      ELSE [raised |-> FALSE, fs |-> w.fs, stderr |-> << >>]

\* create_file(path, content): raised is TRUE when the OSError is re-raised
create_file(f, path, content, refused) ==
  LET d == mkdir(f, Parent(path), TRUE, TRUE)
      w == open_w(d.fs, path, content, refused)
  IN  IF ~d.ok THEN [raised |-> TRUE, fs |-> d.fs,
                     stderr |-> << "Error creating/writing file " \o path >>]
      ELSE IF ~w.ok THEN [raised |-> TRUE, fs |-> w.fs,
                          stderr |-> << "Error creating/writing file " \o path >>]
      ELSE [raised |-> FALSE, fs |-> w.fs, stderr |-> << >>]

\* ------------------------------------------------------------ external commands
\* how an external process ends: exit status 0, a non-zero exit status, the
\* executable missing (FileNotFoundError), no answer within the timeout
Outcomes == { "ok", "nonzero", "notfound" }

PrereqOutcomes == Outcomes \cup { "timeout" }

\* check_prereq(command): True only when the command exits with status 0
check_prereq(outcome) == outcome = "ok"

\* mutant of run_command: a failure is re-raised whatever check is
run_command_raising(command, outcome, out, err, check) ==
  IF outcome = "ok"
  THEN [raised |-> FALSE, success |-> TRUE, stdout |-> out, stderr |-> err,
        printed |-> << >>]
  ELSE [raised |-> TRUE, success |-> FALSE, stdout |-> out, stderr |-> err,
        printed |-> << "Error running command: " \o command >>]

\* mutant of run_command: check is ignored, a failure is never re-raised
run_command_unchecked(command, outcome, out, err, check) ==
  IF outcome = "ok"
  THEN [raised |-> FALSE, success |-> TRUE, stdout |-> out, stderr |-> err,
        printed |-> << >>]
  ELSE [raised |-> FALSE, success |-> FALSE, stdout |-> out, stderr |-> err,
        printed |-> << "Error running command: " \o command >>]

\* run_command(command, check): out and err are what the process writes to
\* stdout and stderr; raised is TRUE when the exception is re-raised
run_command(command, outcome, out, err, check) ==
  IF outcome = "ok"
  THEN [raised |-> FALSE, success |-> TRUE, stdout |-> out, stderr |-> err,
        printed |-> IF err # "" THEN << "Stderr: " \o err >> ELSE << >>]
  ELSE IF outcome = "nonzero"
  THEN IF check
       THEN [raised |-> TRUE, success |-> FALSE, stdout |-> out, stderr |-> err,
             printed |-> << "Error running command: " \o command >>]
       ELSE [raised |-> FALSE, success |-> FALSE, stdout |-> out, stderr |-> err,
             printed |-> IF err # "" THEN << "Stderr: " \o err >> ELSE << >>]
  ELSE [raised |-> check, success |-> FALSE, stdout |-> "",
        stderr |-> command \o " not found",
        printed |-> << "Error: Command not found: " \o command >>]

\* Python's `sub in s`
RECURSIVE Contains(_, _)
Contains(s, sub) ==
  IF Len(s) < Len(sub) THEN FALSE
  ELSE StartsWith(s, sub) \/ Contains(SubSeq(s, 2, Len(s)), sub)

\* what a failing `npm install -g` may write to stderr
NpmErrs == { "npm ERR! code E404", "npm ERR! code EACCES" }

\* ------------------------------------------------------------------------ state
VARIABLES
  rules,         \* snapshot of the rules/ directory: name -> EntryKinds
  fs,            \* the working directory: path -> node
  develop,       \* TRUE when the repository has a local branch develop
  npm_installs,  \* number of successful `npm install -g markdownlint-cli`
  pc,            \* position of the running main
  run,           \* number of the current run of main
  python_ok,     \* main's local python_ok
  git_ok,        \* main's local git_ok
  npm_ok,        \* main's local npm_ok
  widx,          \* index of the next create_file call of lines 568-574
  toc_markdown,  \* main's local toc_markdown, as its lines
  stderr,        \* what the current run has printed to sys.stderr
  cmds,          \* the external commands the current run has invoked
  failed,        \* the steps of the current run that failed
  written,       \* the paths the current run has written
  exit_code,     \* exit status of the current run, -1 while it runs
  exit_how,      \* "sys.exit", "uncaught" (exception) or "return"
  exit_at,       \* value of pc at which the current run ended
  start,         \* the environment at the start of the current run
  prev,          \* how the previous run ended (NoRun before the second run)
  call           \* the last call of create_file made by itself (NoCall in main)

vars == << rules, fs, develop, npm_installs, pc, run, python_ok, git_ok, npm_ok,
           widx, toc_markdown, stderr, cmds, failed, written, exit_code,
           exit_how, exit_at, start, prev, call >>

env == << rules, fs, develop, npm_installs >>

locals == << python_ok, git_ok, npm_ok, widx, toc_markdown >>

ending == << exit_code, exit_how, exit_at >>

Snapshot(names, F, D) ==
  [ n \in names |-> IF n \in D THEN "dir" ELSE IF n \in F THEN "file" ELSE "absent" ]

\* the snapshots of rules/ that main runs on: regular files only
MainSnapshots ==
  { Snapshot(Names, F, {}) : F \in SUBSET { MainPool[i] : i \in 1..NumMain } }

\* the working directory before the first run: .git, rules/ and .venv present
\* or not; the outputs all absent, or all present with other content
InitialFs(git, rul, venv, old) ==
  [ p \in Paths |->
      IF p = ".git" THEN (IF git THEN DirNode ELSE Absent)
      ELSE IF p = "rules" THEN (IF rul THEN DirNode ELSE Absent)
      ELSE IF p = ".venv" THEN (IF venv THEN DirNode ELSE Absent)
      ELSE IF ~old THEN Absent
      ELSE IF p \in DirPaths THEN DirNode
      ELSE FileNode(OldContent) ]

\* the record of a run that has ended
Summary ==
  [ exit_code |-> exit_code, exit_at |-> exit_at,
    python_ok |-> python_ok, git_ok |-> git_ok, npm_ok |-> npm_ok,
    clean |-> (failed = {}), wrote_toc |-> (TocPath \in written) ]

NoRun ==
  [ exit_code |-> -1, exit_at |-> "",
    python_ok |-> FALSE, git_ok |-> FALSE, npm_ok |-> FALSE,
    clean |-> FALSE, wrote_toc |-> FALSE ]

NoCall == [path |-> "", content |-> << >>, refused |-> FALSE, raised |-> FALSE]

\* a process that has just started main
FreshProcess ==
  /\ pc = "check_python"
  /\ python_ok = FALSE /\ git_ok = FALSE /\ npm_ok = FALSE
  /\ widx = 1
  /\ toc_markdown = << >>
  /\ stderr = << >>
  /\ cmds = << >>
  /\ failed = {}
  /\ written = {}
  /\ exit_code = -1
  /\ exit_how = ""
  /\ exit_at = ""

Init ==
  /\ \E git \in BOOLEAN, rul \in BOOLEAN, venv \in BOOLEAN, old \in BOOLEAN :
       /\ fs = InitialFs(git, rul, venv, old)
       /\ rules \in IF rul THEN MainSnapshots ELSE { Snapshot(Names, {}, {}) }
  /\ develop \in BOOLEAN
  /\ npm_installs = 0
  /\ run = 1
  /\ FreshProcess
  /\ start = [fs |-> fs, develop |-> develop, npm_installs |-> npm_installs]
  /\ prev = NoRun
  /\ call = NoCall

\* ------------------------------------------------------------------------- main
Cmd(command, outcome) == [cmd |-> command, outcome |-> outcome]

\* check_prereq tells its caller only whether the command succeeded
PrereqCmd(command, outcome) ==
  Cmd(command, IF check_prereq(outcome) THEN "ok" ELSE "failed")

\* the run ends here: sys.exit(code), an uncaught exception (status 1) or the
\* return from main (status 0)
Terminate(code, how) ==
  /\ pc' = "done"
  /\ exit_code' = code
  /\ exit_how' = how
  /\ exit_at' = pc

PrereqFailed(tool) == "[FAILED] " \o tool \o " not found or not executable."

\* line 537
CheckPython ==
  /\ pc = "check_python"
  /\ \E o \in PrereqOutcomes :
       /\ python_ok' = check_prereq(o)
       /\ cmds' = Append(cmds, PrereqCmd("python --version", o))
       /\ stderr' = IF check_prereq(o) THEN stderr ELSE Append(stderr, PrereqFailed("python"))
       /\ failed' = IF check_prereq(o) THEN failed ELSE failed \cup { "python --version" }
  /\ pc' = "check_git"
  /\ UNCHANGED << env, run, git_ok, npm_ok, widx, toc_markdown, written, ending, start, prev, call >>

\* line 538
CheckGit ==
  /\ pc = "check_git"
  /\ \E o \in PrereqOutcomes :
       /\ git_ok' = check_prereq(o)
       /\ cmds' = Append(cmds, PrereqCmd("git --version", o))
       /\ stderr' = IF check_prereq(o) THEN stderr ELSE Append(stderr, PrereqFailed("git"))
       /\ failed' = IF check_prereq(o) THEN failed ELSE failed \cup { "git --version" }
  /\ pc' = "check_npm"
  /\ UNCHANGED << env, run, python_ok, npm_ok, widx, toc_markdown, written, ending, start, prev, call >>

\* line 539
CheckNpm ==
  /\ pc = "check_npm"
  /\ \E o \in PrereqOutcomes :
       /\ npm_ok' = check_prereq(o)
       /\ cmds' = Append(cmds, PrereqCmd("npm --version", o))
       /\ stderr' = IF check_prereq(o) THEN stderr ELSE Append(stderr, PrereqFailed("npm"))
       /\ failed' = IF check_prereq(o) THEN failed ELSE failed \cup { "npm --version" }
  /\ pc' = "prereq"
  /\ UNCHANGED << env, run, python_ok, git_ok, widx, toc_markdown, written, ending, start, prev, call >>

\* mutant of PrereqAbort: the test of python_ok of line 541 is lost
PrereqAbortGitOnly(py, git, npm) == ~git

\* lines 541-544: the checks whose failure makes main call sys.exit(1)
PrereqAbort(py, git, npm) == ~py \/ ~git

\* lines 541-546
PrereqDecide ==
  /\ pc = "prereq"
  /\ UNCHANGED << env, run, locals, cmds, failed, written, start, prev, call >>
  /\ IF PrereqAbort(python_ok, git_ok, npm_ok)
     THEN /\ stderr' = IF python_ok THEN Append(stderr, "Error: Git command not found. Exiting.")
                       ELSE stderr
          /\ Terminate(1, "sys.exit")
     ELSE /\ stderr' = IF npm_ok THEN stderr
                       ELSE Append(stderr, "Warning: npm not found. Markdownlint checks/install will be skipped.")
          /\ pc' = "verify"
          /\ UNCHANGED ending

\* mutant of LayoutError: the test of rules/ of lines 554-556 is lost
LayoutErrorGitOnly(f) ==
  IF f[".git"].kind # "dir" THEN "Error: No '.git' directory found. Run script from repo root."
  ELSE ""

\* lines 551-556: the message of the layout check that fails, "" when none does
LayoutError(f) ==
  IF ~is_dir(f, ".git") THEN "Error: No '.git' directory found. Run script from repo root."
  ELSE IF ~is_dir(f, "rules") THEN "Error: 'rules/' directory not found."
  ELSE ""

\* lines 549-557
VerifyLayout ==
  /\ pc = "verify"
  /\ UNCHANGED << env, run, locals, cmds, failed, written, start, prev, call >>
  /\ IF LayoutError(fs) # ""
     THEN /\ stderr' = Append(stderr, LayoutError(fs))
          /\ Terminate(1, "sys.exit")
     ELSE /\ pc' = "mkdirs"
          /\ UNCHANGED << stderr, ending >>

\* lines 561-564: the four mkdir calls in order, stopping at the first that raises
MakeDirsResult(f) ==
  LET r1 == mkdir(f, "docs", FALSE, TRUE)
      r2 == IF r1.ok THEN mkdir(r1.fs, "scripts", FALSE, TRUE) ELSE r1
      r3 == IF r2.ok THEN mkdir(r2.fs, ".vscode", FALSE, TRUE) ELSE r2
      r4 == IF r3.ok THEN mkdir(r3.fs, ".github/workflows", TRUE, TRUE) ELSE r3
  IN  r4

\* lines 559-565
MakeDirs ==
  /\ pc = "mkdirs"
  /\ UNCHANGED << rules, develop, npm_installs, run, locals, cmds, stderr, written, start, prev, call >>
  /\ fs' = MakeDirsResult(fs).fs
  /\ IF MakeDirsResult(fs).ok
     THEN /\ pc' = "templates"
          /\ UNCHANGED << failed, ending >>
     ELSE /\ failed' = failed \cup { "mkdir" }
          /\ Terminate(1, "uncaught")

\* lines 567-574: one create_file call of the sequence
WriteTemplate ==
  /\ pc = "templates"
  /\ UNCHANGED << rules, develop, npm_installs, run, python_ok, git_ok, npm_ok,
                  toc_markdown, cmds, start, prev, call >>
  /\ \E refused \in BOOLEAN :
       LET t == Templates[widx]
           r == create_file(fs, t.path, t.content, refused)
       IN  /\ fs' = r.fs
           /\ stderr' = stderr \o r.stderr
           /\ IF r.raised
              THEN /\ failed' = failed \cup { t.path }
                   /\ UNCHANGED << written, widx >>
                   /\ Terminate(1, "uncaught")
              ELSE /\ written' = written \cup { t.path }
                   /\ widx' = widx + 1
                   /\ pc' = IF widx = Len(Templates) THEN "copy_script" ELSE "templates"
                   /\ UNCHANGED << failed, ending >>

\* mutant of needs_copy: the `not` of line 581 is lost, a missing target is not copied
needs_copy_if_exists(f) ==
  KindOf(f, ScriptPath) # "absent" /\ SelfScript # f[ScriptPath].content

\* line 581: the copy is made when the target is missing or differs
needs_copy(f) ==
  KindOf(f, ScriptPath) = "absent" \/ SelfScript # f[ScriptPath].content

\* lines 576-585; copy_fails is read_text or shutil.copy2 raising
CopyScript ==
  /\ pc = "copy_script"
  /\ UNCHANGED << rules, develop, npm_installs, run, locals, cmds, ending, start, prev, call >>
  /\ \E copy_fails \in BOOLEAN :
       IF KindOf(fs, ScriptPath) = "dir" \/ (needs_copy(fs) /\ copy_fails)
       THEN /\ stderr' = Append(stderr, "Warning: Could not copy setup script")
            /\ failed' = failed \cup { ScriptPath }
            /\ UNCHANGED << fs, written >>
       ELSE IF needs_copy(fs)
       THEN /\ fs' = [fs EXCEPT ![ScriptPath] = FileNode(SelfScript)]
            /\ written' = written \cup { ScriptPath }
            /\ UNCHANGED << stderr, failed >>
       ELSE UNCHANGED << fs, written, stderr, failed >>
  /\ pc' = "toc"

\* lines 588-596
GenerateToc ==
  /\ pc = "toc"
  /\ UNCHANGED << rules, develop, npm_installs, run, python_ok, git_ok, npm_ok,
                  widx, cmds, ending, start, prev, call >>
  /\ \E refused \in BOOLEAN :
       LET g == generate_toc_content(rules)
           r == create_file(fs, TocPath, g.toc, refused)
       IN  /\ toc_markdown' = g.toc
           /\ fs' = r.fs
           /\ IF r.raised
              THEN /\ stderr' = stderr \o g.stderr \o r.stderr \o
                                << "Error generating Table of Contents",
                                   "Warning: Failed to create/update docs/LLM_CODING_GUIDE.md" >>
                   /\ failed' = failed \cup { TocPath }
                   /\ UNCHANGED written
              ELSE /\ stderr' = stderr \o g.stderr
                   /\ written' = written \cup { TocPath }
                   /\ UNCHANGED failed
  /\ pc' = "venv"

\* mutant of needs_venv: the test looks at venv instead of .venv, which never exists
needs_venv_always(f) == TRUE

\* line 601: the environment is provisioned only when .venv is not a directory
needs_venv(f) == ~is_dir(f, ".venv")

\* lines 598-611; the provisioner cannot succeed when .venv is a regular file
SetupVenv ==
  /\ pc = "venv"
  /\ UNCHANGED << rules, develop, npm_installs, run, locals, written, start, prev, call >>
  /\ IF needs_venv(fs)
     THEN \E o \in Outcomes :
            LET r == run_command("python -m venv .venv", o, "", "", TRUE)
            IN  /\ o = "ok" => KindOf(fs, ".venv") # "file"
                /\ cmds' = Append(cmds, Cmd("python -m venv .venv", o))
                /\ IF r.raised
                   THEN /\ stderr' = stderr \o r.printed
                        /\ failed' = failed \cup { "python -m venv .venv" }
                        /\ UNCHANGED fs
                        /\ Terminate(1, "uncaught")
                   ELSE IF r.success
                   THEN /\ fs' = [fs EXCEPT ![".venv"] = DirNode]
                        /\ pc' = "npm_install"
                        /\ UNCHANGED << stderr, failed, ending >>
                   ELSE /\ stderr' = stderr \o r.printed \o
                                     << "Error: Failed to create virtual environment." >>
                        /\ failed' = failed \cup { "python -m venv .venv" }
                        /\ pc' = "npm_install"
                        /\ UNCHANGED << fs, ending >>
     ELSE /\ pc' = "npm_install"
          /\ UNCHANGED << fs, cmds, stderr, failed, ending >>

\* line 619
PermissionRelated(err) == Contains(err, "checkPermissions") \/ Contains(err, "EACCES")

\* mutant of InstallTools: a failed install is tried again
InstallToolsRetry ==
  /\ pc = "npm_install"
  /\ UNCHANGED << rules, fs, develop, run, locals, written, start, prev, call >>
  /\ IF npm_ok
     THEN \E o \in Outcomes, err \in NpmErrs :
            LET r == run_command("npm install -g markdownlint-cli", o, "",
                                 IF o = "nonzero" THEN err ELSE "", FALSE)
            IN  /\ cmds' = Append(cmds, Cmd("npm install -g markdownlint-cli", o))
                /\ IF r.raised
                   THEN /\ stderr' = stderr \o r.printed
                        /\ failed' = failed \cup { "npm install -g markdownlint-cli" }
                        /\ UNCHANGED npm_installs
                        /\ Terminate(1, "uncaught")
                   ELSE IF ~r.success
                   THEN /\ stderr' = stderr \o r.printed \o
                             << IF PermissionRelated(r.stderr)
                                THEN "Warning: Failed to install markdownlint-cli globally due to permissions."
                                ELSE "Warning: Failed to install markdownlint-cli globally." >>
                        /\ failed' = failed \cup { "npm install -g markdownlint-cli" }
                        /\ pc' = "npm_install"
                        /\ UNCHANGED << npm_installs, ending >>
                   ELSE /\ npm_installs' = npm_installs + 1
                        /\ pc' = "branch_list"
                        /\ UNCHANGED << stderr, failed, ending >>
     ELSE /\ pc' = "branch_list"
          /\ UNCHANGED << npm_installs, cmds, stderr, failed, ending >>

\* lines 614-626
InstallTools ==
  /\ pc = "npm_install"
  /\ UNCHANGED << rules, fs, develop, run, locals, written, start, prev, call >>
  /\ IF npm_ok
     THEN \E o \in Outcomes, err \in NpmErrs :
            LET r == run_command("npm install -g markdownlint-cli", o, "",
                                 IF o = "nonzero" THEN err ELSE "", FALSE)
            IN  /\ cmds' = Append(cmds, Cmd("npm install -g markdownlint-cli", o))
                /\ IF r.raised
                   THEN /\ stderr' = stderr \o r.printed
                        /\ failed' = failed \cup { "npm install -g markdownlint-cli" }
                        /\ UNCHANGED npm_installs
                        /\ Terminate(1, "uncaught")
                   ELSE IF ~r.success
                   THEN /\ stderr' = stderr \o r.printed \o
                             << IF PermissionRelated(r.stderr)
                                THEN "Warning: Failed to install markdownlint-cli globally due to permissions."
                                ELSE "Warning: Failed to install markdownlint-cli globally." >>
                        /\ failed' = failed \cup { "npm install -g markdownlint-cli" }
                        /\ pc' = "branch_list"
                        /\ UNCHANGED << npm_installs, ending >>
                   ELSE /\ npm_installs' = npm_installs + 1
                        /\ pc' = "branch_list"
                        /\ UNCHANGED << stderr, failed, ending >>
     ELSE /\ pc' = "branch_list"
          /\ UNCHANGED << npm_installs, cmds, stderr, failed, ending >>

\* lines 628-631: the listing of the branch and the test of its output
EnsureDevelopList ==
  /\ pc = "branch_list"
  /\ UNCHANGED << env, run, locals, written, start, prev, call >>
  /\ \E o \in Outcomes :
       LET r == run_command("git branch --list develop", o,
                            IF develop THEN "  develop" ELSE "", "", FALSE)
           develop_exists == Contains(Strip(r.stdout), "develop")
       IN  /\ cmds' = Append(cmds, Cmd("git branch --list develop", o))
           /\ IF r.raised
              THEN /\ stderr' = stderr \o r.printed
                   /\ failed' = failed \cup { "git branch --list develop" }
                   /\ Terminate(1, "uncaught")
              ELSE /\ stderr' = stderr \o r.printed
                   /\ failed' = IF r.success THEN failed
                                ELSE failed \cup { "git branch --list develop" }
                   /\ pc' = IF develop_exists THEN "complete" ELSE "branch_create"
                   /\ UNCHANGED ending

\* lines 632-636: git refuses to create a branch that exists
EnsureDevelopCreate ==
  /\ pc = "branch_create"
  /\ UNCHANGED << rules, fs, npm_installs, run, locals, written, start, prev, call >>
  /\ \E o \in Outcomes :
       LET r == run_command("git branch develop", o, "", "", TRUE)
       IN  /\ o = "ok" => ~develop
           /\ cmds' = Append(cmds, Cmd("git branch develop", o))
           /\ IF r.raised
              THEN /\ stderr' = stderr \o r.printed
                   /\ failed' = failed \cup { "git branch develop" }
                   /\ UNCHANGED develop
                   /\ Terminate(1, "uncaught")
              ELSE IF r.success
              THEN /\ develop' = TRUE
                   /\ pc' = "complete"
                   /\ UNCHANGED << stderr, failed, ending >>
              ELSE /\ stderr' = stderr \o r.printed \o
                                << "Error: Failed to create 'develop' branch." >>
                   /\ failed' = failed \cup { "git branch develop" }
                   /\ pc' = "complete"
                   /\ UNCHANGED << develop, ending >>

\* lines 640-647 and the return from main
Complete ==
  /\ pc = "complete"
  /\ UNCHANGED << env, run, locals, stderr, cmds, failed, written, start, prev, call >>
  /\ Terminate(0, "return")

\* the script is invoked again in the directory the last run left
Rerun ==
  /\ pc = "done"
  /\ run < MaxRuns
  /\ run' = run + 1
  /\ pc' = "check_python"
  /\ python_ok' = FALSE /\ git_ok' = FALSE /\ npm_ok' = FALSE
  /\ widx' = 1
  /\ toc_markdown' = << >>
  /\ stderr' = << >>
  /\ cmds' = << >>
  /\ failed' = {}
  /\ written' = {}
  /\ exit_code' = -1
  /\ exit_how' = ""
  /\ exit_at' = ""
  /\ start' = [fs |-> fs, develop |-> develop, npm_installs |-> npm_installs]
  /\ prev' = Summary
  /\ UNCHANGED << env, call >>

Next ==
  \/ CheckPython
  \/ CheckGit
  \/ CheckNpm
  \/ PrereqDecide
  \/ VerifyLayout
  \/ MakeDirs
  \/ WriteTemplate
  \/ CopyScript
  \/ GenerateToc
  \/ SetupVenv
  \/ InstallTools
  \/ EnsureDevelopList
  \/ EnsureDevelopCreate
  \/ Complete
  \/ Rerun

Spec == Init /\ [][Next]_vars

\* ------------------------------------------- generate_toc_content on its own
\* any snapshot of rules/ is handed to generate_toc_content
InitToc ==
  /\ \E D \in SUBSET DirNames :
       \E F \in SUBSET (Names \ D) : rules = Snapshot(Names, F, D)
  /\ fs = InitialFs(TRUE, TRUE, FALSE, FALSE)
  /\ develop = FALSE
  /\ npm_installs = 0
  /\ run = 1
  /\ pc = "toc_call"
  /\ python_ok = TRUE /\ git_ok = TRUE /\ npm_ok = TRUE
  /\ widx = 1
  /\ toc_markdown = << >>
  /\ stderr = << >>
  /\ cmds = << >>
  /\ failed = {}
  /\ written = {}
  /\ exit_code = -1
  /\ exit_how = ""
  /\ exit_at = ""
  /\ start = [fs |-> fs, develop |-> develop, npm_installs |-> npm_installs]
  /\ prev = NoRun
  /\ call = NoCall

\* line 592: toc_markdown = generate_toc_content(rules_dir)
TocCall ==
  /\ pc = "toc_call"
  /\ LET g == generate_toc_content(rules)
     IN  /\ toc_markdown' = g.toc
         /\ stderr' = stderr \o g.stderr
  /\ pc' = "toc_done"
  /\ UNCHANGED << env, run, python_ok, git_ok, npm_ok, widx, cmds, failed,
                  written, ending, start, prev, call >>

NextToc == TocCall

SpecToc == InitToc /\ [][NextToc]_vars

\* ------------------------------------------------------- create_file on its own
\* the paths create_file is called on: main's targets, at depth one to three
TargetPool ==
  << ".github/workflows/markdown-lint.yml", "docs/SETUP_GUIDE.md",
     ".vscode/settings.json", "README.md", ".gitignore" >>

Targets == { TargetPool[i] : i \in 1..NumTargets }

\* the ancestors of a path inside the working directory, nearest first
RECURSIVE Ancestors(_)
Ancestors(p) ==
  IF Parent(p) = "." THEN {} ELSE { Parent(p) } \cup Ancestors(Parent(p))

\* the paths whose state varies before the call: the targets and their ancestors
TargetNodes == Targets \cup UNION { Ancestors(p) : p \in Targets }

\* what a caller may pass as content: a template, the text already in the
\* file, the default ""
Contents == { GITHUB_WORKFLOW_CONTENT, OldContent, << >> }

\* a file system is a tree: what exists lies in a directory
TreeConsistent(k) ==
  \A p \in DOMAIN k :
     k[p] # "absent" => (Parent(p) = "." \/ k[Parent(p)] = "dir")

\* the working directories create_file is called in: every target and every
\* ancestor absent, a regular file (with other content) or a directory
CreateSnapshots ==
  { [ p \in Paths |->
        IF p \notin TargetNodes \/ k[p] = "absent" THEN Absent
        ELSE IF k[p] = "dir" THEN DirNode
        ELSE FileNode(OldContent) ] :
    k \in { kk \in [TargetNodes -> EntryKinds] : TreeConsistent(kk) } }

InitCreate ==
  /\ fs \in CreateSnapshots
  /\ rules = Snapshot(Names, {}, {})
  /\ develop = FALSE
  /\ npm_installs = 0
  /\ run = 1
  /\ pc = "create_call"
  /\ python_ok = TRUE /\ git_ok = TRUE /\ npm_ok = TRUE
  /\ widx = 1
  /\ toc_markdown = << >>
  /\ stderr = << >>
  /\ cmds = << >>
  /\ failed = {}
  /\ written = {}
  /\ exit_code = -1
  /\ exit_how = ""
  /\ exit_at = ""
  /\ start = [fs |-> fs, develop |-> develop, npm_installs |-> npm_installs]
  /\ prev = NoRun
  /\ call = NoCall

\* lines 474-483: one call create_file(path, content)
CreateFileCall ==
  /\ pc = "create_call"
  /\ \E path \in Targets, content \in Contents, refused \in BOOLEAN :
       LET r == create_file(fs, path, content, refused)
       IN  /\ fs' = r.fs
           /\ stderr' = stderr \o r.stderr
           /\ call' = [path |-> path, content |-> content, refused |-> refused,
                       raised |-> r.raised]
  /\ pc' = "create_done"
  /\ UNCHANGED << rules, develop, npm_installs, run, locals, cmds, failed,
                  written, ending, start, prev >>

NextCreate == CreateFileCall

SpecCreate == InitCreate /\ [][NextCreate]_vars

\* ---------------------------------------------------------- reading a document
\* a list entry "*   [title](../rules/name)"
IsEntry(line) == StartsWith(line, "*   [") /\ EndsWith(line, ")")

\* a list entry that links to ../rules/f
IsEntryFor(line, f) ==
  StartsWith(line, "*   [") /\ EndsWith(line, "](../rules/" \o f \o ")")

\* the name an entry links to
EntryName(line) == CHOOSE n \in Names : IsEntryFor(line, n)

Least(S) == CHOOSE i \in S : \A j \in S : i <= j

NonBlank(line) == line # ""

\* the non-blank lines under the first heading h, up to the next heading
SectionOf(doc, h) ==
  LET at == { i \in 1..Len(doc) : doc[i] = h }
  IN  IF at = {} THEN << >>
      ELSE LET i     == Least(at)
               later == { j \in (i + 1)..Len(doc) : StartsWith(doc[j], "#") }
               e     == IF later = {} THEN Len(doc) ELSE Least(later) - 1
           IN  SelectSeq(SubSeq(doc, i + 1, e), NonBlank)

ChaptersOf(doc) == SectionOf(doc, "## Chapters")

OthersOf(doc) == SectionOf(doc, "### Other Files")

IsRegularFile(f) == rules[f] = "file"

\* the fixed list restricted to the names that are regular files of rules/
PresentChapters == SelectSeq(CHAPTER_FILES, IsRegularFile)

Count(s, x) == Cardinality({ i \in 1..Len(s) : s[i] = x })

\* ---------------------------------------------------------------------- claims
\* C1: for every snapshot of rules/, the "Chapters" section holds exactly one
\* entry for each name of CHAPTER_FILES that is a (regular) file of the
\* directory, no other entry, and the entries follow the order of CHAPTER_FILES.
C1_ChaptersSection ==
  pc = "toc_done" =>
    LET sec     == ChaptersOf(toc_markdown)
        present == PresentChapters
    IN  /\ Len(sec) = Len(present)
        /\ \A i \in 1..Len(sec) : IsEntryFor(sec[i], present[i])

\* C1 witness: the first and the third chapter are files, the second is not, a
\* later chapter name is a subdirectory, and the section lists the two files
C1_Witness ==
  /\ pc = "toc_done"
  /\ rules["00-Introduction.md"] = "file"
  /\ rules["1-Using-LLMs-Effectively-Safely-The-Core-Interaction-Loop.md"] = "absent"
  /\ rules["2-Security-Non-Negotiable-Foundations.md"] = "file"
  /\ rules["4-Testing-Validation.md"] = "dir"
  /\ Len(ChaptersOf(toc_markdown)) = 2

\* C2 (as claimed): the "Other Files" section lists exactly the regular .md
\* files whose names are outside CHAPTER_FILES, each once, in lexicographic
\* order, and lists no name of the "Chapters" section nor of CHAPTER_FILES.
C2_OtherFilesExact ==
  pc = "toc_done" =>
    LET sec      == OthersOf(toc_markdown)
        expected == { n \in Names : /\ rules[n] = "file"
                                    /\ EndsWith(n, ".md")
                                    /\ n \notin ChapterNames }
    IN  /\ \A i \in 1..Len(sec) : IsEntry(sec[i])
        /\ \A i \in 1..Len(sec) : \E n \in expected : IsEntryFor(sec[i], n)
        /\ \A n \in expected : \E i \in 1..Len(sec) : IsEntryFor(sec[i], n)
        /\ \A i, j \in 1..Len(sec) :
             i < j => StrLess(EntryName(sec[i]), EntryName(sec[j]))
        /\ \A f \in ChapterNames : \A i \in 1..Len(sec) : ~IsEntryFor(sec[i], f)

\* C9: generate_toc_content returns a document for every subset of
\* CHAPTER_FILES present as files; it prints exactly one warning for each name
\* of the fixed list that is not a file of the directory, none for a name that
\* is, and nothing else; the "Chapters" section has no entry for a name that is
\* not a file, and the document has none for a name that is absent.
C9_MissingChapterWarnings ==
  pc = "toc_done" =>
    LET sec == ChaptersOf(toc_markdown)
    IN  /\ Len(toc_markdown) > 0
        /\ \A f \in ChapterNames :
             /\ Count(stderr, MissingWarning(f)) = IF rules[f] = "file" THEN 0 ELSE 1
             /\ rules[f] # "file" =>
                  \A i \in 1..Len(sec) : ~IsEntryFor(sec[i], f)
             /\ rules[f] = "absent" =>
                  \A i \in 1..Len(toc_markdown) : ~IsEntryFor(toc_markdown[i], f)
        /\ Len(stderr) = Len(CHAPTER_FILES) - Len(PresentChapters)

\* C9 witness: only the first and the third chapter are present (the example
\* of the testable properties): eight warnings and a document with two entries
C9_Witness ==
  /\ pc = "toc_done"
  /\ \A f \in Names : rules[f] = "file" <=>
        f \in { "00-Introduction.md", "2-Security-Non-Negotiable-Foundations.md" }
  /\ \A f \in Names : rules[f] # "dir"
  /\ Len(stderr) = 8
  /\ Len(ChaptersOf(toc_markdown)) = 2
  /\ OthersOf(toc_markdown) = << >>

\* C10: the "Other Files" heading is in the document exactly when at least one
\* entry is listed under it; for an empty directory the document is the header,
\* the two prose lines and the "Chapters" heading, with no entry and no
\* "Other Files" heading.
C10_OtherHeading ==
  pc = "toc_done" =>
    /\ Count(toc_markdown, "### Other Files") = IF OthersOf(toc_markdown) # << >> THEN 1 ELSE 0
    /\ \A i \in 1..Len(OthersOf(toc_markdown)) : IsEntry(OthersOf(toc_markdown)[i])
    /\ (\A n \in Names : rules[n] = "absent") =>
         /\ toc_markdown =
              << "# LLM Coding Guide - Master Rules (v1.0.7+)", "",
                 toc_markdown[3], toc_markdown[4], "", "## Chapters", "", "" >>
         /\ StartsWith(toc_markdown[3], "This document serves as the entry point")
         /\ StartsWith(toc_markdown[4], "The rules are broken down into chapters")

\* C10 witness: the document generated for an empty rules/
C10_Witness ==
  /\ pc = "toc_done"
  /\ \A n \in Names : rules[n] = "absent"
  /\ Len(toc_markdown) = 8
  /\ Count(toc_markdown, "### Other Files") = 0

\* the commands of main that only query: they change nothing
QueryCommands ==
  { "python --version", "git --version", "npm --version", "git branch --list develop" }

NpmInstall == "npm install -g markdownlint-cli"

CmdNames(log) == { log[i].cmd : i \in 1..Len(log) }

\* the layout that main requires, in the directory the current run started in
LayoutPresent == start.fs[".git"].kind = "dir" /\ start.fs["rules"].kind = "dir"

\* C3: when .git or rules/ is missing, main ends with exit code 1 and at every
\* state of the run nothing of the working directory or the repository has
\* changed and only querying commands have been invoked.
C3_MissingLayoutAborts ==
  ~LayoutPresent =>
    /\ fs = start.fs
    /\ develop = start.develop
    /\ npm_installs = start.npm_installs
    /\ written = {}
    /\ CmdNames(cmds) \subseteq QueryCommands
    /\ pc = "done" => exit_code = 1
    /\ pc \in { "check_python", "check_git", "check_npm", "prereq", "verify", "done" }

\* C3 witness: the tools are found, .git is there, rules/ is not, and the run
\* has ended at the layout check
C3_Witness ==
  /\ pc = "done"
  /\ exit_at = "verify"
  /\ exit_code = 1
  /\ start.fs[".git"].kind = "dir"
  /\ start.fs["rules"].kind = "absent"
  /\ python_ok /\ git_ok /\ npm_ok

\* C4 (as claimed): whenever create_file is refused for a template file or for
\* docs/LLM_CODING_GUIDE.md, the run aborts: it has ended abnormally and no
\* later step is executed.
C4_WriteFailureAborts ==
  \A p \in TemplatePaths \cup { TocPath } :
     p \in failed => pc = "done" /\ exit_code = 1 /\ exit_how = "uncaught"

\* every step of a run succeeded and main returned
CleanRun(r) == r.exit_code = 0 /\ r.clean

\* C5: two runs in a row, every step of both succeeding, rules/ untouched:
\* each output file has the same content after the second run as after the first.
C5_SecondRunSameOutputs ==
  (pc = "done" /\ run >= 2 /\ CleanRun(prev) /\ CleanRun(Summary)) =>
     \A p \in OutputPaths : fs[p].kind = "file" /\ fs[p] = start.fs[p]

\* C5 witness: the second of two clean runs has ended, on a rules/ that holds a
\* chapter; the table of contents on disk is the generated one
C5_Witness ==
  /\ pc = "done" /\ run = 2
  /\ CleanRun(prev) /\ CleanRun(Summary)
  /\ rules["00-Introduction.md"] = "file"
  /\ fs[TocPath].content = toc_markdown
  /\ Len(ChaptersOf(toc_markdown)) = 1
  /\ TocPath \in written /\ prev.wrote_toc

\* the directory a completed run leaves when all its writes succeeded: every
\* template and the script copy in place, .venv provisioned, the branch
\* develop created
Initialised(f, dev) ==
  /\ \A i \in 1..Len(Templates) : f[Templates[i].path] = FileNode(Templates[i].content)
  /\ f[TocPath].kind = "file"
  /\ f[ScriptPath] = FileNode(SelfScript)
  /\ f[".venv"].kind = "dir"
  /\ dev

\* the current run started in a directory that the previous run, which
\* returned, left initialised, the table of contents being of its writing
RerunOfInitialised ==
  /\ run >= 2 /\ prev.exit_code = 0 /\ pc # "done"
  /\ prev.wrote_toc
  /\ Initialised(start.fs, start.develop)

LastCmd(log) == log[Len(log)]

\* C6 (as claimed): a run on a directory initialised by a previous completed run
\* changes no file, directory or branch (a rewrite leaves the content as it
\* was), and invokes no state-changing external command.
C6_RerunChangesNothing ==
  [][ RerunOfInitialised =>
        /\ fs' = fs
        /\ develop' = develop
        /\ npm_installs' = npm_installs
        /\ cmds' # cmds => LastCmd(cmds').cmd \in QueryCommands ]_vars

\* C6 (amended): such a run changes no file, directory or branch, does not
\* invoke the provisioner, and creates no branch; the state-changing commands it
\* invokes are npm install -g markdownlint-cli, whenever npm was found, and,
\* only after a failed git branch --list develop, a git branch develop that fails.
C6_RerunOnlyReinstalls ==
  [][ RerunOfInitialised =>
        /\ fs' = fs
        /\ develop' = develop
        /\ cmds' # cmds =>
             \/ LastCmd(cmds').cmd \in QueryCommands
             \/ LastCmd(cmds').cmd = NpmInstall /\ npm_ok
             \/ /\ LastCmd(cmds').cmd = "git branch develop"
                /\ LastCmd(cmds').outcome # "ok"
                /\ LastCmd(cmds).cmd = "git branch --list develop"
                /\ LastCmd(cmds).outcome # "ok"
        /\ (pc = "npm_install" /\ npm_ok) =>
             (cmds' # cmds /\ LastCmd(cmds').cmd = NpmInstall) ]_vars

\* C6 witness: a run on an initialised directory has returned after installing
\* markdownlint-cli once more
C6_Witness ==
  /\ run = 2 /\ prev.exit_code = 0 /\ pc = "done" /\ exit_code = 0
  /\ prev.wrote_toc
  /\ Initialised(start.fs, start.develop)
  /\ fs = start.fs
  /\ NpmInstall \in CmdNames(cmds)
  /\ npm_installs = start.npm_installs + 1

\* the runs that have ended: the previous one and, at "done", the current one
EndedRuns ==
  (IF prev.exit_code # -1 THEN { prev } ELSE {}) \cup
  (IF pc = "done" THEN { Summary } ELSE {})

Tools == { "python", "git", "npm" }

Found(r, tool) ==
  IF tool = "python" THEN r.python_ok ELSE IF tool = "git" THEN r.git_ok ELSE r.npm_ok

AbortedAtPrereq(r) == r.exit_at = "prereq" /\ r.exit_code = 1

\* C7 (as claimed): exactly one of the three tools is mandatory: its absence
\* ends the run with exit code 1, and the absence of either of the other two
\* does not abort the run.
C7_ExactlyOneMandatory ==
  \E m \in Tools :
    \A r \in EndedRuns :
       /\ ~Found(r, m) => AbortedAtPrereq(r)
       /\ \A t \in Tools \ {m} : (Found(r, m) /\ ~Found(r, t)) => ~AbortedAtPrereq(r)

\* C7 (amended): two of the three tools are mandatory, the Python interpreter
\* and git: the absence of either ends the run with exit code 1 at the
\* prerequisite step; the absence of npm alone does not abort the run.
C7_TwoMandatory ==
  /\ \A r \in EndedRuns :
       /\ (~r.python_ok \/ ~r.git_ok) => AbortedAtPrereq(r)
       /\ (r.python_ok /\ r.git_ok) => ~AbortedAtPrereq(r)
  /\ pc \in { "verify", "mkdirs", "templates", "copy_script", "toc", "venv",
              "npm_install", "branch_list", "branch_create", "complete" }
       => python_ok /\ git_ok

\* C7 witness: the previous run ended at the prerequisite step for want of git
\* alone, and the current run, with npm alone missing, has run to its end
C7_Witness ==
  /\ prev.python_ok /\ ~prev.git_ok /\ prev.npm_ok /\ AbortedAtPrereq(prev)
  /\ python_ok /\ git_ok /\ ~npm_ok
  /\ pc = "done" /\ exit_code = 0

NpmWarnings ==
  { "Warning: Failed to install markdownlint-cli globally due to permissions.",
    "Warning: Failed to install markdownlint-cli globally." }

\* C8: with python, git and the layout present and every write, the
\* provisioning and the git commands succeeding, the run reaches the branch
\* step and returns with exit code 0 both when npm is absent (the install is
\* never invoked, a warning is printed) and when npm install fails or cannot
\* start (one of the two warnings is printed).
C8_NpmFailureIsNotFatal ==
  (/\ pc = "done"
   /\ python_ok /\ git_ok /\ LayoutPresent
   /\ failed \subseteq { "npm --version", NpmInstall }) =>
     /\ exit_code = 0 /\ exit_at = "complete"
     /\ "git branch --list develop" \in CmdNames(cmds)
     /\ ~npm_ok =>
          /\ NpmInstall \notin CmdNames(cmds)
          /\ Count(stderr, "Warning: npm not found. Markdownlint checks/install will be skipped.") = 1
     /\ NpmInstall \in failed =>
          Cardinality({ i \in 1..Len(stderr) : stderr[i] \in NpmWarnings }) = 1

\* C8 witness: the previous run returned without npm, and the current run has
\* returned although npm install could not be started
C8_Witness ==
  /\ prev.exit_code = 0 /\ ~prev.npm_ok
  /\ pc = "done" /\ exit_code = 0 /\ npm_ok
  /\ failed = { NpmInstall }
  /\ \E i \in 1..Len(cmds) : cmds[i] = Cmd(NpmInstall, "notfound")

\* main returned: the run reached the end of the sequence
Completed == pc = "done" /\ exit_code = 0

TocWarning == "Warning: Failed to create/update docs/LLM_CODING_GUIDE.md"

CopyWarning == "Warning: Could not copy setup script"

\* C11 (as claimed): whenever main has run to completion (exit code 0), all
\* nine files of the produced layout exist in the working directory.
C11_AllNineExist ==
  Completed => \A p \in OutputPaths : fs[p].kind = "file"

\* C11 (amended): whenever main has run to completion, the seven template
\* files exist with their template content; docs/LLM_CODING_GUIDE.md holds the
\* generated document unless its write failed, and scripts/setup_project.py
\* holds the text of the script unless the copy failed; a file whose write or
\* copy failed is as it was before the run (missing, if it was missing), and
\* the warning of that step was printed once.
C11_SevenExistTwoBestEffort ==
  Completed =>
    /\ \A i \in 1..Len(Templates) :
         fs[Templates[i].path] = FileNode(Templates[i].content)
    /\ IF TocPath \in failed
       THEN fs[TocPath] = start.fs[TocPath] /\ Count(stderr, TocWarning) = 1
       ELSE fs[TocPath] = FileNode(toc_markdown) /\ Count(stderr, TocWarning) = 0
    /\ IF ScriptPath \in failed
       THEN fs[ScriptPath] = start.fs[ScriptPath] /\ Count(stderr, CopyWarning) = 1
       ELSE fs[ScriptPath] = FileNode(SelfScript) /\ Count(stderr, CopyWarning) = 0

\* C11 witness: a run in a directory without any output has returned; the copy
\* of the script failed and the script is missing, the eight other files exist
C11_Witness ==
  /\ Completed
  /\ \A p \in OutputPaths : start.fs[p].kind = "absent"
  /\ failed = { ScriptPath }
  /\ fs[ScriptPath].kind = "absent"
  /\ \A p \in OutputPaths \ { ScriptPath } : fs[p].kind = "file"

\* C12: after a call create_file(path, content) on any working directory: if
\* the call returned, every ancestor of path is a directory and the file at
\* path holds exactly content, whatever was there (missing ancestors, no file,
\* a file with other content); the call returns whenever no ancestor is a
\* non-directory, path is not a directory and the open is not refused; if an
\* ancestor of path was a non-directory, the call raised and there is nothing
\* at path; a call that raised left path as it was, and no call touches a path
\* other than path and its ancestors.
C12_CreateFileContract ==
  pc = "create_done" =>
    LET p      == call.path
        before == start.fs
        blocked == \E a \in Ancestors(p) : before[a].kind = "file"
    IN  /\ ~call.raised =>
             /\ \A a \in Ancestors(p) : fs[a].kind = "dir"
             /\ fs[p] = FileNode(call.content)
        /\ (~blocked /\ before[p].kind # "dir" /\ ~call.refused) => ~call.raised
        /\ blocked => call.raised /\ fs[p].kind = "absent"
        /\ call.raised =>
             /\ fs[p] = before[p]
             /\ Len(stderr) = 1
        /\ \A q \in Paths \ ({ p } \cup Ancestors(p)) : fs[q] = before[q]

\* C12 witness: the workflow file has been created in a directory that had
\* neither .github nor .github/workflows
C12_Witness ==
  /\ pc = "create_done"
  /\ call.path = ".github/workflows/markdown-lint.yml"
  /\ ~call.raised
  /\ start.fs[".github"].kind = "absent"
  /\ fs[".github"].kind = "dir" /\ fs[".github/workflows"].kind = "dir"
  /\ fs[call.path] = FileNode(GITHUB_WORKFLOW_CONTENT)

\* the steps of main in the order of its text, then the end of the run
StepOrder ==
  << "check_python", "check_git", "check_npm", "prereq", "verify", "mkdirs",
     "templates", "copy_script", "toc", "venv", "npm_install", "branch_list",
     "branch_create", "complete", "done" >>

StepRank ==
  [ p \in Range(StepOrder) |-> CHOOSE i \in 1..Len(StepOrder) : StepOrder[i] = p ]

\* the external command a step invokes, "" when it invokes none
CommandAt(p) ==
  IF p = "check_python" THEN "python --version"
  ELSE IF p = "check_git" THEN "git --version"
  ELSE IF p = "check_npm" THEN "npm --version"
  ELSE IF p = "venv" THEN "python -m venv .venv"
  ELSE IF p = "npm_install" THEN NpmInstall
  ELSE IF p = "branch_list" THEN "git branch --list develop"
  ELSE IF p = "branch_create" THEN "git branch develop"
  ELSE ""

\* the file a step writes
TargetAt(p, i) ==
  IF p = "templates" THEN Templates[i].path
  ELSE IF p = "copy_script" THEN ScriptPath
  ELSE IF p = "toc" THEN TocPath
  ELSE ""

\* the exit statuses a caller can have read
StatusRead == { "ok", "failed", "nonzero", "notfound" }

\* C13: within a run of main every step moves to a later step of the fixed
\* order (three tool checks, layout check, the template writes one after the
\* other, script copy, table of contents, provisioning, npm install, branch
\* listing, branch creation), to the end of the run, or to the next template
\* write: no step is taken twice and none is retried. A step invokes at most one
\* command, its own, never invoked before in the run, and only the
\* provisioning (when .venv is not a directory), the install (when npm was
\* found) and the branch creation (when the listing does not print develop)
\* are conditional; the status of the command is known when the step ends, and
\* that of a tool check, of the provisioning and of the branch creation
\* decides what follows. A step writes at most one file, its own, and all seven
\* templates are written when the table of contents is generated.
C13_FixedOrder ==
  [][ run' = run =>
        /\ \/ StepRank[pc'] = StepRank[pc] + 1
           \/ pc' = "done" /\ pc # "done"
           \/ pc = "templates" /\ pc' = "templates" /\ widx' = widx + 1
           \/ pc = "branch_list" /\ pc' = "complete"
        /\ cmds' # cmds <=>
             /\ CommandAt(pc) # ""
             /\ pc = "venv" => ~is_dir(fs, ".venv")
             /\ pc = "npm_install" => npm_ok
        /\ cmds' # cmds =>
             /\ cmds' = Append(cmds, LastCmd(cmds'))
             /\ LastCmd(cmds').cmd = CommandAt(pc)
             /\ LastCmd(cmds').outcome \in StatusRead
             /\ CommandAt(pc) \notin CmdNames(cmds)
             /\ pc = "check_python" => python_ok' = (LastCmd(cmds').outcome = "ok")
             /\ pc = "check_git" => git_ok' = (LastCmd(cmds').outcome = "ok")
             /\ pc = "check_npm" => npm_ok' = (LastCmd(cmds').outcome = "ok")
             /\ pc \in { "venv", "branch_create" } =>
                  (LastCmd(cmds').outcome = "ok" <=> pc' # "done")
             /\ pc = "branch_list" =>
                  (pc' = "complete" <=> (LastCmd(cmds').outcome # "notfound" /\ develop))
        /\ written' # written =>
             /\ written' = written \cup { TargetAt(pc, widx) }
             /\ TargetAt(pc, widx) \notin written
        /\ pc' = "toc" => TemplatePaths \subseteq written'
        /\ pc = "toc" => cmds = SubSeq(cmds, 1, 3)
        /\ (pc \in { "check_python", "check_git", "check_npm", "prereq", "verify" })
             => (fs' = fs /\ written' = {}) ]_vars

\* C13 witness: a run that took every step has returned: the seven commands
\* in order, the nine files written
C13_Witness ==
  /\ Completed
  /\ [ i \in 1..Len(cmds) |-> cmds[i].cmd ] =
       << "python --version", "git --version", "npm --version",
          "python -m venv .venv", NpmInstall, "git branch --list develop",
          "git branch develop" >>
  /\ written = OutputPaths
  /\ develop /\ ~start.develop

\* the commands main runs with check=True, and the step of each
CheckedCommands == { "python -m venv .venv", "git branch develop" }

StepOf(c) == IF c = "python -m venv .venv" THEN "venv" ELSE "branch_create"

FailedToCreate ==
  { "Error: Failed to create virtual environment.",
    "Error: Failed to create 'develop' branch." }

\* C14: when python -m venv .venv or git branch develop fails (non-zero exit
\* or command not found), the run ends at that step with an uncaught
\* exception: its exit code is 1, not 0, the failing command is the last one
\* invoked and no later step was entered; neither "Failed to create" message
\* is ever printed.
C14_CheckedFailureEndsRun ==
  /\ \A i \in 1..Len(cmds) :
       (cmds[i].cmd \in CheckedCommands /\ cmds[i].outcome # "ok") =>
          /\ i = Len(cmds)
          /\ pc = "done"
          /\ exit_code = 1 /\ exit_how = "uncaught"
          /\ exit_at = StepOf(cmds[i].cmd)
          /\ cmds[i].cmd \in failed
  /\ \A i \in 1..Len(stderr) : stderr[i] \notin FailedToCreate

\* C14 witness: the previous run ended at the provisioning step, and the
\* current run, past it, has ended at git branch develop, which was not found
C14_Witness ==
  /\ prev.exit_at = "venv" /\ prev.exit_code = 1
  /\ pc = "done" /\ exit_at = "branch_create" /\ exit_code = 1
  /\ LastCmd(cmds) = Cmd("git branch develop", "notfound")
  /\ "python -m venv .venv" \in CmdNames(cmds)

====
